---- MODULE Spec2Model ----
(***************************************************************************)
(* A model of the in-memory "users" REST server: the userHandler           *)
(* dispatcher (ServeHTTP), its three handlers (List, Get, Create), the     *)
(* datastore they share (a map guarded by an embedded sync.RWMutex) and    *)
(* the error-response helpers.                                             *)
(*                                                                         *)
(* Strings the code inspects (URL paths, map keys, user ids and names)     *)
(* are sequences of one-character strings, so that the regular             *)
(* expressions and the key comparison are computed, not assumed.           *)
(* One worker goroutine serves one request at a time; workers interleave   *)
(* at every statement that touches the lock, the map or the response.      *)
(***************************************************************************)
EXTENDS Integers, Sequences, FiniteSets, Bags, TLC

(***************************************************************************)
(* Bounds of the model.                                                    *)
(***************************************************************************)
\* concurrent workers (goroutines serving requests) of specification Spec
NumProcs == 2
\* requests served in one behaviour of Spec
MaxRequests == 3
\* requests served in one behaviour of SpecLive
MaxLiveRequests == 2
\* requests served, one after the other, in one behaviour of SpecSeq
MaxSeqRequests == 3
\* requests served, one after the other, in one behaviour of SpecRoute
MaxRouteRequests == 1
\* longest path suffix after "/users" that SpecRoute and SpecUnit enumerate
MaxSuffix == 3
\* direct calls of a handler or a helper in one behaviour of SpecUnit
MaxCalls == 2

Procs == 1..NumProcs

(***************************************************************************)
(* Strings.                                                                *)
(***************************************************************************)
Digits == {"0", "1", "2", "3", "4", "5", "6", "7", "8", "9"}

UsersPath == <<"/", "u", "s", "e", "r", "s">>

HasPrefix(s, pre) ==
    /\ Len(s) >= Len(pre)
    /\ SubSeq(s, 1, Len(pre)) = pre

TrimPrefix(s, pre) == SubSeq(s, Len(pre) + 1, Len(s))

\* All sequences over S of length at most n.
SeqUpTo(S, n) == UNION {[1..k -> S] : k \in 0..n}

(***************************************************************************)
(* The route patterns (regexp.MustCompile at package level).  Each         *)
(* operator is the pattern's MatchString.                                  *)
(***************************************************************************)
\* ^\/users[\/]*$ : "/users" followed by any number of slashes
listUsersRe(path) ==
    /\ HasPrefix(path, UsersPath)
    /\ \A i \in 1..Len(TrimPrefix(path, UsersPath)) :
           TrimPrefix(path, UsersPath)[i] = "/"

\* ^\/users[\/]*$ : the same pattern, compiled a second time
createUserRe(path) ==
    /\ HasPrefix(path, UsersPath)
    /\ \A i \in 1..Len(TrimPrefix(path, UsersPath)) :
           TrimPrefix(path, UsersPath)[i] = "/"

\* ^\/users\/(\d+)$ : FindStringSubmatch, the whole match and the digit
\* group, or the empty list (nil) when the path does not match
getUserReSubmatch(path) ==
    IF /\ HasPrefix(path, UsersPath \o <<"/">>)
       /\ Len(path) > Len(UsersPath) + 1
       /\ \A i \in (Len(UsersPath) + 2)..Len(path) : path[i] \in Digits
    THEN <<path, TrimPrefix(path, UsersPath \o <<"/">>)>>
    ELSE <<>>

\* A looser pattern for the dispatcher, ^\/users\/(.+)$ : any text after
\* "/users/", while Get extracts the digits.
getUserReLoose(path) ==
    /\ HasPrefix(path, UsersPath \o <<"/">>)
    /\ Len(path) > Len(UsersPath) + 1

\* getUserRe.MatchString
getUserRe(path) == getUserReSubmatch(path) # <<>>

(***************************************************************************)
(* JSON.  A request body is an abstract JSON text: not JSON at all         *)
(* ("invalid"), no text ("empty"), one JSON value, or one JSON value and   *)
(* more text after it ("trailing").  An object is                          *)
(* given by its members "id" and "name", each absent or a JSON value;      *)
(* members with other names are ignored by the decoder and left out.       *)
(***************************************************************************)
JAbsent == [t |-> "absent"]
JNull == [t |-> "null"]
JNumber == [t |-> "number"]
JString(s) == [t |-> "string", v |-> s]
JArray == [t |-> "array"]
JInvalid == [t |-> "invalid"]
JEmpty == [t |-> "empty"]
JObject(i, n) == [t |-> "object", id |-> i, name |-> n]
\* a complete JSON value followed by text that is not JSON
JTrailing(v) == [t |-> "trailing", first |-> v]

\* type user struct { ID string `json:"id"`; Name string `json:"name"` }
user(i, n) == [ID |-> i, Name |-> n]

\* user{} : the zero value
zeroUser == user(<<>>, <<>>)

\* Decoding one member into a string field: a string sets the field, null
\* and an absent member leave it, any other value is a type error.
fieldOK(f) == f.t \in {"absent", "null", "string"}

fieldValue(f, old) == IF f.t = "string" THEN f.v ELSE old

\* Decoding one JSON value into u == user{}: null leaves u as it is, an
\* object sets the fields its members name, any other value is a type
\* error.  The error flag and the decoded record.
DecodeValue(v) ==
    CASE v.t = "null" -> [err |-> FALSE, u |-> zeroUser]
      [] v.t = "object" ->
            [err |-> ~(fieldOK(v.id) /\ fieldOK(v.name)),
             u |-> user(fieldValue(v.id, <<>>), fieldValue(v.name, <<>>))]
      [] OTHER -> [err |-> TRUE, u |-> zeroUser]

\* A faulty Decode, which reports no error: whatever cannot be decoded
\* leaves the fields of u as they were.
DecodeLax(body) ==
    IF body.t = "object"
    THEN [err |-> FALSE,
          u |-> user(fieldValue(body.id, <<>>), fieldValue(body.name, <<>>))]
    ELSE [err |-> FALSE, u |-> zeroUser]

\* json.NewDecoder(r.Body).Decode(&u): a syntax error or the end of the
\* input before one value is complete is an error; otherwise the first
\* value of the body is decoded, and what follows it is not read.
Decode(body) ==
    CASE body.t \in {"invalid", "empty"} -> [err |-> TRUE, u |-> zeroUser]
      [] body.t = "trailing" -> DecodeValue(body.first)
      [] OTHER -> DecodeValue(body)

\* json.Marshal(u) for a user: an object with the two string members.  It
\* has no failing case for a struct of two strings.
MarshalUser(u) == [err |-> FALSE, json |-> JObject(JString(u.ID), JString(u.Name))]

\* json.Marshal(users) for a slice of users: an array of such objects.  The
\* order of the slice is the map's iteration order, which is unspecified,
\* so the array is kept as a bag of its elements.
MarshalUsers(users) ==
    [err |-> FALSE,
     json |-> [t |-> "array",
               items |-> BagOfAll(LAMBDA u : MarshalUser(u).json, users)]]

(***************************************************************************)
(* Response helpers (badRequest, notFound, internalServerError): each      *)
(* writes one status and one fixed body.  A response is the list of calls  *)
(* made on the http.ResponseWriter.                                        *)
(***************************************************************************)
NoBody == [t |-> "none"]
SetHeader == [op |-> "Header.Set", code |-> 0, body |-> NoBody]
WriteHeader(c) == [op |-> "WriteHeader", code |-> c, body |-> NoBody]
Write(b) == [op |-> "Write", code |-> 0, body |-> b]

ErrorBody(s) == [t |-> "object", error |-> s]

badRequest(w) == w \o <<WriteHeader(400), Write(ErrorBody("bad request"))>>

notFound(w) == w \o <<WriteHeader(404), Write(ErrorBody("not found"))>>

internalServerError(w) ==
    w \o <<WriteHeader(500), Write(ErrorBody("interval server error"))>>

\* What the client receives: the first status written and the bodies.
Statuses(w) == SelectSeq(w, LAMBDA e : e.op = "WriteHeader")
Bodies(w) == SelectSeq(w, LAMBDA e : e.op = "Write")
Status(w) == IF Statuses(w) = <<>> THEN 0 ELSE Statuses(w)[1].code
Body(w) == IF Bodies(w) = <<>> THEN NoBody ELSE Bodies(w)[1].body

(***************************************************************************)
(* The datastore: map[string]user plus the embedded *sync.RWMutex.         *)
(***************************************************************************)
\* The map literal of main: six records, none stored under its own id.
\* Names are never inspected by the code; a name is a sequence of chunks
\* of text.
SeedStore ==
    (<<"1">> :> user(<<"1", "0", "0", "1">>, <<"Komi Shouko">>))
    @@ (<<"2">> :> user(<<"1", "0", "0", "2">>, <<"Manbagi Rumiko">>))
    @@ (<<"3">> :> user(<<"1", "0", "0", "3">>, <<"Yamai Ren">>))
    @@ (<<"4">> :> user(<<"1", "0", "0", "4">>, <<"Tadano Hitomi">>))
    @@ (<<"5">> :> user(<<"1", "0", "0", "5">>, <<"Onemine Nene">>))
    @@ (<<"6">> :> user(<<"1", "0", "0", "6">>, <<"Otori Kaede">>))

\* Faulty assignments: into a copy of the map taken at start-up, so that
\* earlier updates are lost; only when the key is new; under the name.
PutSeedOnly(store, u) == (u.ID :> u) @@ SeedStore

PutNoOverwrite(store, u) == store @@ (u.ID :> u)

PutByName(store, u) == (u.Name :> u) @@ store

\* A faulty assignment: of a new map that holds the record alone.
PutReplaceAll(store, u) == (u.ID :> u)

\* h.store.m[u.ID] = u : insert or overwrite the entry at the record's id
Put(store, u) == (u.ID :> u) @@ store

\* A faulty append, which keeps the new element only.
appendReplace(users, u) == SetToBag({u})

\* users = append(users, u)
append(users, u) == users (+) SetToBag({u})

\* The entry a range loop visits next, of those it has not visited.
NextKey(keys) == CHOOSE k \in keys : TRUE

\* A faulty lookup, which takes every key to be present.
LookupAlwaysOk(store, key) ==
    IF key \in DOMAIN store
    THEN [user |-> store[key], ok |-> TRUE]
    ELSE [user |-> zeroUser, ok |-> TRUE]

\* user, ok := h.store.m[key] : the zero user and false when absent
Lookup(store, key) ==
    IF key \in DOMAIN store
    THEN [user |-> store[key], ok |-> TRUE]
    ELSE [user |-> zeroUser, ok |-> FALSE]

(***************************************************************************)
(* State.                                                                  *)
(***************************************************************************)
VARIABLES
    m,        \* h.store.m : the map, a function from its keys to users
    wlock,    \* the worker holding the RWMutex for writing, or 0
    rlock,    \* the workers holding the RWMutex for reading
    pc,       \* pc[p] : the statement worker p executes next
    req,      \* req[p] : the request worker p is serving (method, path, body)
    loc,      \* loc[p] : the locals of the handler worker p is running
    out,      \* out[p] : the calls made so far on p's ResponseWriter
    nreq,     \* the number of requests received so far
    settled,  \* history: the store as the requests so far asked it to be
    full,     \* history: the ids last created from a body {id: string, name: string}
    twice,    \* history: the ids created twice in a row with different names
    wrote     \* history: wrote[p] iff p's request has assigned to the map

vars == <<m, wlock, rlock, pc, req, loc, out, nreq, settled, full, twice, wrote>>

NoRequest == [method |-> "", path |-> <<>>, body |-> JEmpty]

\* The locals of List (users, its requested capacity, and the keys the
\* range loop has visited), Get (matches, user, ok) and Create (u).
NoLocals ==
    [users |-> EmptyBag, ucap |-> 0, visited |-> {},
     matches |-> <<>>, user |-> zeroUser, ok |-> FALSE, u |-> zeroUser]

Init ==
    /\ m = SeedStore
    /\ wlock = 0
    /\ rlock = {}
    /\ pc = [p \in Procs |-> "idle"]
    /\ req = [p \in Procs |-> NoRequest]
    /\ loc = [p \in Procs |-> NoLocals]
    /\ out = [p \in Procs |-> <<>>]
    /\ nreq = 0
    /\ settled = SeedStore
    /\ full = {}
    /\ twice = {}
    /\ wrote = [p \in Procs |-> FALSE]

InFlight(p) == pc[p] \notin {"idle", "done", "panic"}

(***************************************************************************)
(* The record a request body asks to create, as the data model states it:  *)
(* the id and the name the caller supplied, the empty string for one the   *)
(* caller left out.  Used by the history variables only.                   *)
(***************************************************************************)
Supplied(f) == IF f.t = "string" THEN f.v ELSE <<>>

\* A body {id: S, name: T} with both members strings.
FullBody(body) ==
    /\ body.t = "object"
    /\ body.id.t = "string"
    /\ body.name.t = "string"

FirstValue(body) == IF body.t = "trailing" THEN body.first ELSE body

Intended(body) ==
    IF FirstValue(body).t = "object"
    THEN user(Supplied(FirstValue(body).id), Supplied(FirstValue(body).name))
    ELSE zeroUser

(***************************************************************************)
(* ServeHTTP: set the content type, then dispatch on method and path, the  *)
(* first matching case winning.                                            *)
(***************************************************************************)
Route(method, path) ==
    CASE method = "GET" /\ listUsersRe(path) -> "List"
      [] method = "GET" /\ getUserRe(path) -> "Get"
      [] method = "POST" /\ createUserRe(path) -> "Create"
      [] OTHER -> "notFound"

Serve(p, r, max) ==
    /\ pc[p] \in {"idle", "done"}
    /\ nreq < max
    /\ nreq' = nreq + 1
    /\ req' = [req EXCEPT ![p] = r]
    /\ loc' = [loc EXCEPT ![p] = NoLocals]
    /\ wrote' = [wrote EXCEPT ![p] = FALSE]
    /\ IF Route(r.method, r.path) = "notFound"
       THEN /\ out' = [out EXCEPT ![p] = notFound(<<SetHeader>>)]
            /\ pc' = [pc EXCEPT ![p] = "done"]
       ELSE /\ out' = [out EXCEPT ![p] = <<SetHeader>>]
            /\ pc' = [pc EXCEPT ![p] = Route(r.method, r.path)]
    /\ UNCHANGED <<m, wlock, rlock, settled, full, twice>>

(***************************************************************************)
(* List.                                                                   *)
(***************************************************************************)
\* users := make([]user, 0, len(h.store.m)) : the map's size is read
\* before the lock is taken
ListMake(p) ==
    /\ pc[p] = "List"
    /\ loc' = [loc EXCEPT ![p].ucap = Cardinality(DOMAIN m)]
    /\ pc' = [pc EXCEPT ![p] = "ListRLock"]
    /\ UNCHANGED <<m, wlock, rlock, req, out, nreq, settled, full, twice, wrote>>

\* h.store.RLock()
ListRLock(p) ==
    /\ pc[p] = "ListRLock"
    /\ wlock = 0
    /\ rlock' = rlock \cup {p}
    /\ pc' = [pc EXCEPT ![p] = "ListRange"]
    /\ UNCHANGED <<m, wlock, req, loc, out, nreq, settled, full, twice, wrote>>

\* one iteration of  for _, u := range h.store.m { users = append(users, u) }
\* : the iterator's next entry among those not visited yet.  The order is
\* the iterator's own; users is kept as a bag, so the model fixes one.
ListRange(p) ==
    /\ pc[p] = "ListRange"
    /\ DOMAIN m \ loc[p].visited # {}
    /\ LET k == NextKey(DOMAIN m \ loc[p].visited)
       IN loc' = [loc EXCEPT ![p].users = append(@, m[k]),
                             ![p].visited = @ \cup {k}]
    /\ UNCHANGED <<m, wlock, rlock, pc, req, out, nreq, settled, full, twice, wrote>>

\* A faulty end of the loop: the unlock is deferred (defer
\* h.store.RUnlock()), so the read lock is kept while List goes on.
ListRUnlockDeferred(p) ==
    /\ pc[p] = "ListRange"
    /\ DOMAIN m \ loc[p].visited = {}
    /\ pc' = [pc EXCEPT ![p] = "ListWrite"]
    /\ UNCHANGED <<m, wlock, rlock, req, loc, out, nreq, settled, full, twice,
                   wrote>>

\* the loop ends when every entry has been visited; h.store.RUnlock()
ListRUnlock(p) ==
    /\ pc[p] = "ListRange"
    /\ DOMAIN m \ loc[p].visited = {}
    /\ rlock' = rlock \ {p}
    /\ pc' = [pc EXCEPT ![p] = "ListWrite"]
    /\ UNCHANGED <<m, wlock, req, loc, out, nreq, settled, full, twice, wrote>>

\* json.Marshal(users), then the 500 response or the 200 response
ListWrite(p) ==
    /\ pc[p] = "ListWrite"
    /\ out' = [out EXCEPT ![p] =
                 IF MarshalUsers(loc[p].users).err
                 THEN internalServerError(@)
                 ELSE @ \o <<WriteHeader(200),
                             Write(MarshalUsers(loc[p].users).json)>>]
    /\ pc' = [pc EXCEPT ![p] = "done"]
    /\ UNCHANGED <<m, wlock, rlock, req, nreq, settled, full, twice, wrote>>
    /\ loc' = [loc EXCEPT ![p] = NoLocals]

(***************************************************************************)
(* Get.                                                                    *)
(***************************************************************************)
\* A GetMatch that returns after notFound, as the other checks of the
\* handlers do.
GetMatchReturn(p) ==
    /\ pc[p] = "Get"
    /\ loc' = [loc EXCEPT ![p].matches = getUserReSubmatch(req[p].path)]
    /\ IF Len(getUserReSubmatch(req[p].path)) < 2
       THEN /\ out' = [out EXCEPT ![p] = notFound(@)]
            /\ pc' = [pc EXCEPT ![p] = "done"]
       ELSE /\ out' = out
            /\ pc' = [pc EXCEPT ![p] = "GetRLock"]
    /\ UNCHANGED <<m, wlock, rlock, req, nreq, settled, full, twice, wrote>>

\* matches := getUserRe.FindStringSubmatch(r.URL.Path); with fewer than two
\* groups notFound is written and the handler goes on (there is no return)
GetMatch(p) ==
    /\ pc[p] = "Get"
    /\ loc' = [loc EXCEPT ![p].matches = getUserReSubmatch(req[p].path)]
    /\ out' = [out EXCEPT ![p] =
                 IF Len(getUserReSubmatch(req[p].path)) < 2
                 THEN notFound(@) ELSE @]
    /\ pc' = [pc EXCEPT ![p] = "GetRLock"]
    /\ UNCHANGED <<m, wlock, rlock, req, nreq, settled, full, twice, wrote>>

\* h.store.RLock()
GetRLock(p) ==
    /\ pc[p] = "GetRLock"
    /\ wlock = 0
    /\ rlock' = rlock \cup {p}
    /\ pc' = [pc EXCEPT ![p] = "GetLookup"]
    /\ UNCHANGED <<m, wlock, req, loc, out, nreq, settled, full, twice, wrote>>

\* user, ok := h.store.m[matches[1]] : indexing matches out of range
\* panics, with the read lock still held
GetLookup(p) ==
    /\ pc[p] = "GetLookup"
    /\ IF Len(loc[p].matches) < 2
       THEN /\ pc' = [pc EXCEPT ![p] = "panic"]
            /\ loc' = loc
       ELSE /\ pc' = [pc EXCEPT ![p] = "GetRUnlock"]
            /\ loc' = [loc EXCEPT
                         ![p].user = Lookup(m, loc[p].matches[2]).user,
                         ![p].ok = Lookup(m, loc[p].matches[2]).ok]
    /\ UNCHANGED <<m, wlock, rlock, req, out, nreq, settled, full, twice, wrote>>

\* A faulty GetRUnlock: the unlock is missing, the handler goes on.
GetRUnlockMissing(p) ==
    /\ pc[p] = "GetRUnlock"
    /\ pc' = [pc EXCEPT ![p] = "GetWrite"]
    /\ UNCHANGED <<m, wlock, rlock, req, loc, out, nreq, settled, full, twice,
                   wrote>>

\* h.store.RUnlock()
GetRUnlock(p) ==
    /\ pc[p] = "GetRUnlock"
    /\ rlock' = rlock \ {p}
    /\ pc' = [pc EXCEPT ![p] = "GetWrite"]
    /\ UNCHANGED <<m, wlock, req, loc, out, nreq, settled, full, twice, wrote>>

\* A faulty GetWrite, which writes notFound when !ok and goes on to the
\* 200 response (the return is missing, as it is after the first check).
GetWriteNoReturn(p) ==
    /\ pc[p] = "GetWrite"
    /\ out' = [out EXCEPT ![p] =
                 (IF ~loc[p].ok THEN notFound(@) ELSE @)
                     \o <<WriteHeader(200),
                          Write(MarshalUser(loc[p].user).json)>>]
    /\ pc' = [pc EXCEPT ![p] = "done"]
    /\ UNCHANGED <<m, wlock, rlock, req, nreq, settled, full, twice, wrote>>
    /\ loc' = [loc EXCEPT ![p] = NoLocals]

\* notFound when !ok; else json.Marshal(user), then the 500 response or
\* the 200 response
GetWrite(p) ==
    /\ pc[p] = "GetWrite"
    /\ out' = [out EXCEPT ![p] =
                 IF ~loc[p].ok THEN notFound(@)
                 ELSE IF MarshalUser(loc[p].user).err
                 THEN internalServerError(@)
                 ELSE @ \o <<WriteHeader(200),
                             Write(MarshalUser(loc[p].user).json)>>]
    /\ pc' = [pc EXCEPT ![p] = "done"]
    /\ UNCHANGED <<m, wlock, rlock, req, nreq, settled, full, twice, wrote>>
    /\ loc' = [loc EXCEPT ![p] = NoLocals]

(***************************************************************************)
(* Create.                                                                 *)
(***************************************************************************)
\* A faulty CreateDecode, which writes badRequest and goes on (the return
\* is missing, as it is in Get).
CreateDecodeNoReturn(p) ==
    /\ pc[p] = "Create"
    /\ out' = [out EXCEPT ![p] =
                 IF Decode(req[p].body).err THEN badRequest(@) ELSE @]
    /\ pc' = [pc EXCEPT ![p] = "CreateLock"]
    /\ loc' = [loc EXCEPT ![p].u = Decode(req[p].body).u]
    /\ UNCHANGED <<m, wlock, rlock, req, nreq, settled, full, twice, wrote>>

\* u := user{}; Decode(&u); on an error badRequest and return
CreateDecode(p) ==
    /\ pc[p] = "Create"
    /\ IF Decode(req[p].body).err
       THEN /\ out' = [out EXCEPT ![p] = badRequest(@)]
            /\ pc' = [pc EXCEPT ![p] = "done"]
            /\ loc' = loc
       ELSE /\ out' = out
            /\ pc' = [pc EXCEPT ![p] = "CreateLock"]
            /\ loc' = [loc EXCEPT ![p].u = Decode(req[p].body).u]
    /\ UNCHANGED <<m, wlock, rlock, req, nreq, settled, full, twice, wrote>>

\* A faulty lock, which excludes other writers but does not wait for the
\* readers to leave.
CreateLockNoWait(p) ==
    /\ pc[p] = "CreateLock"
    /\ wlock = 0
    /\ wlock' = p
    /\ pc' = [pc EXCEPT ![p] = "CreateWrite"]
    /\ UNCHANGED <<m, rlock, req, loc, out, nreq, settled, full, twice, wrote>>

\* h.store.Lock()
CreateLock(p) ==
    /\ pc[p] = "CreateLock"
    /\ wlock = 0
    /\ rlock = {}
    /\ wlock' = p
    /\ pc' = [pc EXCEPT ![p] = "CreateWrite"]
    /\ UNCHANGED <<m, rlock, req, loc, out, nreq, settled, full, twice, wrote>>

\* h.store.m[u.ID] = u.  The history records what the request asked for.
CreateWrite(p) ==
    /\ pc[p] = "CreateWrite"
    /\ m' = Put(m, loc[p].u)
    /\ wrote' = [wrote EXCEPT ![p] = TRUE]
    /\ pc' = [pc EXCEPT ![p] = "CreateUnlock"]
    /\ LET rec == Intended(req[p].body)
           again == /\ FullBody(req[p].body)
                    /\ rec.ID \in full
                    /\ settled[rec.ID].Name # rec.Name
       IN /\ settled' = (rec.ID :> rec) @@ settled
          /\ full' = IF FullBody(req[p].body)
                     THEN full \cup {rec.ID} ELSE full \ {rec.ID}
          /\ twice' = IF again THEN twice \cup {rec.ID} ELSE twice \ {rec.ID}
    /\ UNCHANGED <<wlock, rlock, req, loc, out, nreq>>

\* h.store.Unlock()
CreateUnlock(p) ==
    /\ pc[p] = "CreateUnlock"
    /\ wlock' = 0
    /\ pc' = [pc EXCEPT ![p] = "CreateRespond"]
    /\ UNCHANGED <<m, rlock, req, loc, out, nreq, settled, full, twice, wrote>>

\* A faulty CreateRespond, which serializes the record now in the store
\* at the id (read back, without the lock) instead of the decoded u.
CreateRespondStored(p) ==
    /\ pc[p] = "CreateRespond"
    /\ out' = [out EXCEPT ![p] =
                 @ \o <<WriteHeader(200),
                        Write(MarshalUser(m[loc[p].u.ID]).json)>>]
    /\ pc' = [pc EXCEPT ![p] = "done"]
    /\ UNCHANGED <<m, wlock, rlock, req, nreq, settled, full, twice, wrote>>
    /\ loc' = [loc EXCEPT ![p] = NoLocals]

\* json.Marshal(u), then the 500 response or the 200 response
CreateRespond(p) ==
    /\ pc[p] = "CreateRespond"
    /\ out' = [out EXCEPT ![p] =
                 IF MarshalUser(loc[p].u).err
                 THEN internalServerError(@)
                 ELSE @ \o <<WriteHeader(200),
                             Write(MarshalUser(loc[p].u).json)>>]
    /\ pc' = [pc EXCEPT ![p] = "done"]
    /\ UNCHANGED <<m, wlock, rlock, req, nreq, settled, full, twice, wrote>>
    /\ loc' = [loc EXCEPT ![p] = NoLocals]

(***************************************************************************)
(* Direct calls.  Get and the three helpers are functions of package main; *)
(* here a caller other than ServeHTTP calls them, with a ResponseWriter    *)
(* nothing has been written to yet: Get with a request of any path (no     *)
(* route pattern has been matched before), a helper at any time.           *)
(***************************************************************************)
\* h.Get(w, r)
CallGet(p, r, max) ==
    /\ pc[p] \in {"idle", "done"}
    /\ nreq < max
    /\ nreq' = nreq + 1
    /\ req' = [req EXCEPT ![p] = r]
    /\ loc' = [loc EXCEPT ![p] = NoLocals]
    /\ wrote' = [wrote EXCEPT ![p] = FALSE]
    /\ out' = [out EXCEPT ![p] = <<>>]
    /\ pc' = [pc EXCEPT ![p] = "Get"]
    /\ UNCHANGED <<m, wlock, rlock, settled, full, twice>>

\* badRequest(w, r), notFound(w, r) or internalServerError(w, r); the
\* helpers do not read r
CallHelper(p, max) ==
    /\ pc[p] \in {"idle", "done"}
    /\ nreq < max
    /\ nreq' = nreq + 1
    /\ req' = [req EXCEPT ![p] = NoRequest]
    /\ loc' = [loc EXCEPT ![p] = NoLocals]
    /\ wrote' = [wrote EXCEPT ![p] = FALSE]
    /\ \E w \in {badRequest(<<>>), notFound(<<>>), internalServerError(<<>>)} :
           out' = [out EXCEPT ![p] = w]
    /\ pc' = [pc EXCEPT ![p] = "done"]
    /\ UNCHANGED <<m, wlock, rlock, settled, full, twice>>

(***************************************************************************)
(* Requests.  The handler is modelled at its own interface, http.Handler:  *)
(* ServeHTTP is given a request with any method, path and body, whatever   *)
(* server or multiplexer stands in front of it.                            *)
(***************************************************************************)
Path(suffix) == UsersPath \o suffix

Request(method, path, body) == [method |-> method, path |-> path, body |-> body]

NameX == <<"X">>
NameY == <<"Y">>

\* Spec: a few requests, served concurrently.
ConcRequests ==
    {Request("GET", Path(<<>>), JEmpty),
     Request("GET", Path(<<"/", "7">>), JEmpty),
     Request("DELETE", Path(<<>>), JEmpty),
     Request("POST", Path(<<>>), JInvalid),
     Request("POST", Path(<<>>), JObject(JString(<<"7">>), JString(NameX))),
     Request("POST", Path(<<>>), JObject(JString(<<"7">>), JString(NameY))),
     Request("POST", Path(<<>>), JObject(JString(<<"1">>), JString(NameX)))}

\* SpecLive: one request for each route and each way a handler ends.
LiveRequests ==
    {Request("GET", Path(<<>>), JEmpty),
     Request("GET", Path(<<"/", "1">>), JEmpty),
     Request("GET", Path(<<"/", "7">>), JEmpty),
     Request("PUT", Path(<<>>), JEmpty),
     Request("POST", Path(<<>>), JInvalid),
     Request("POST", Path(<<>>), JObject(JString(<<"7">>), JString(NameX)))}

\* SpecSeq: one client, many ids and bodies.
SeqIds == {<<>>, <<"1">>, <<"7">>, <<"a">>, <<"1", "0", "0", "1">>}

SeqBodies ==
    {JInvalid, JEmpty, JNull, JNumber, JArray, JString(NameX),
     JTrailing(JNumber),
     JTrailing(JObject(JString(<<"7">>), JString(NameY)))}
    \cup {JObject(i, n) :
            i \in {JAbsent, JNull, JNumber} \cup {JString(s) : s \in SeqIds},
            n \in {JAbsent, JNull, JNumber, JString(NameX), JString(NameY)}}

SeqRequests ==
    {Request("GET", Path(<<>>), JEmpty)}
    \cup {Request("GET", Path(<<"/">> \o s), JEmpty) : s \in SeqIds \cup {<<"9">>}}
    \cup {Request("POST", Path(<<>>), b) : b \in SeqBodies}

\* SpecRoute: one client, every method on every short path.
Methods == {"GET", "POST", "PUT", "DELETE"}

RoutePaths ==
    {Path(s) : s \in SeqUpTo({"/", "1", "a"}, MaxSuffix)}
    \cup {<<"/">>, <<"/", "u", "s", "e", "r">>}

RouteRequests ==
    {Request(meth, path, JObject(JString(<<"1">>), JString(NameX))) :
        meth \in Methods, path \in RoutePaths}

(***************************************************************************)
(* Specifications.                                                         *)
(***************************************************************************)
ServeConc(p) == \E r \in ConcRequests : Serve(p, r, MaxRequests)

ServeSeq(p) == \E r \in SeqRequests : Serve(p, r, MaxSeqRequests)

ServeRoute(p) == \E r \in RouteRequests : Serve(p, r, MaxRouteRequests)

Next ==
    \E p \in Procs :
        \/ ServeConc(p)
        \/ ListMake(p) \/ ListRLock(p) \/ ListRange(p) \/ ListRUnlock(p)
        \/ ListWrite(p)
        \/ GetMatch(p) \/ GetRLock(p) \/ GetLookup(p) \/ GetRUnlock(p)
        \/ GetWrite(p)
        \/ CreateDecode(p) \/ CreateLock(p) \/ CreateWrite(p)
        \/ CreateUnlock(p) \/ CreateRespond(p)

Spec == Init /\ [][Next]_vars

\* SpecLive: Spec under fair scheduling.  A goroutine that can take its
\* next step takes it eventually: the Go scheduler runs every runnable
\* goroutine, and a goroutine blocked in Lock or RLock is woken when the
\* mutex becomes free.  Nothing is assumed about requests arriving.
Handle(p) ==
    \/ ListMake(p) \/ ListRLock(p) \/ ListRange(p) \/ ListRUnlock(p)
    \/ ListWrite(p)
    \/ GetMatch(p) \/ GetRLock(p) \/ GetLookup(p) \/ GetRUnlock(p)
    \/ GetWrite(p)
    \/ CreateDecode(p) \/ CreateLock(p) \/ CreateWrite(p)
    \/ CreateUnlock(p) \/ CreateRespond(p)

ServeLive(p) == \E r \in LiveRequests : Serve(p, r, MaxLiveRequests)

NextLive == \E p \in Procs : ServeLive(p) \/ Handle(p)

SpecLive == Init /\ [][NextLive]_vars /\ \A p \in Procs : WF_vars(Handle(p))

NextSeq ==
    \/ ServeSeq(1)
    \/ ListMake(1) \/ ListRLock(1) \/ ListRange(1) \/ ListRUnlock(1)
    \/ ListWrite(1)
    \/ GetMatch(1) \/ GetRLock(1) \/ GetLookup(1) \/ GetRUnlock(1)
    \/ GetWrite(1)
    \/ CreateDecode(1) \/ CreateLock(1) \/ CreateWrite(1)
    \/ CreateUnlock(1) \/ CreateRespond(1)

SpecSeq == Init /\ [][NextSeq]_vars

NextRoute ==
    \/ ServeRoute(1)
    \/ ListMake(1) \/ ListRLock(1) \/ ListRange(1) \/ ListRUnlock(1)
    \/ ListWrite(1)
    \/ GetMatch(1) \/ GetRLock(1) \/ GetLookup(1) \/ GetRUnlock(1)
    \/ GetWrite(1)
    \/ CreateDecode(1) \/ CreateLock(1) \/ CreateWrite(1)
    \/ CreateUnlock(1) \/ CreateRespond(1)

SpecRoute == Init /\ [][NextRoute]_vars

\* SpecUnit: one caller calls Get and the helpers directly, one call after
\* the other.
CallGetUnit(p) ==
    \E path \in RoutePaths : CallGet(p, Request("GET", path, JEmpty), MaxCalls)

CallHelperUnit(p) == CallHelper(p, MaxCalls)

NextUnit ==
    \/ CallGetUnit(1)
    \/ CallHelperUnit(1)
    \/ GetMatch(1) \/ GetRLock(1) \/ GetLookup(1) \/ GetRUnlock(1)
    \/ GetWrite(1)

SpecUnit == Init /\ [][NextUnit]_vars

(***************************************************************************)
(* Vocabulary of the properties.                                           *)
(***************************************************************************)
Done(p) == pc[p] = "done" /\ req[p] # NoRequest

\* One or more decimal digits.
IsDecimal(k) == Len(k) >= 1 /\ \A i \in 1..Len(k) : k[i] \in Digits

\* The request is GET /users/K for the string K (K may be empty).
IsGetAt(p) == req[p].method = "GET" /\ HasPrefix(req[p].path, Path(<<"/">>))
KeyAt(p) == TrimPrefix(req[p].path, Path(<<"/">>))

\* The paths "/users" and "/users/".
CollectionPath(path) == path \in {Path(<<>>), Path(<<"/">>)}

\* The response is exactly: content type, one status, one body.
Responds(p, code, body) ==
    out[p] = <<SetHeader, WriteHeader(code), Write(body)>>

RecordJSON(i, n) == JObject(JString(i), JString(n))

\* The ids created so far: the keys of the history whose record is stored
\* under its own id (no seed record is).
CreatedIds == {k \in DOMAIN settled : settled[k].ID = k}

\* The number of elements of a List response's array that carry id k.
CountId(items, k) ==
    BagCardinality(BagOfAll(LAMBDA e : e.id.v,
                            [e \in {x \in BagToSet(items) : x.id.v = k}
                               |-> CopiesIn(e, items)]))

\* The range loop of List has visited every entry and the read lock is
\* still held: loc[p].users is the array List will return.
ListComplete(p) == pc[p] = "ListRange" /\ DOMAIN m \ loc[p].visited = {}

\* The ids the seed records carry (none is the key of its record).
SeedIds == {SeedStore[s].ID : s \in DOMAIN SeedStore}

\* The statements that read the map: len(h.store.m), the range loop, the
\* index expression; and the one that writes it.
ReadsMap(p) == pc[p] \in {"List", "ListRange", "GetLookup"}
WritesMap(p) == pc[p] = "CreateWrite"

\* The request is POST /users or POST /users/.
IsCreate(p) == req[p].method = "POST" /\ CollectionPath(req[p].path)

\* A body Decode cannot decode into a user: no complete JSON value, a
\* first value that is neither an object nor null, or an object whose id
\* or name is present and neither a string nor null.
Undecodable(body) ==
    \/ body.t \in {"invalid", "empty"}
    \/ FirstValue(body).t \in {"number", "string", "array"}
    \/ /\ FirstValue(body).t = "object"
       /\ "number" \in {FirstValue(body).id.t, FirstValue(body).name.t}

\* The three routes, as documented: GET or POST on "/users" or "/users/",
\* GET on "/users/" followed by one or more decimal digits.
MatchesRoute(r) ==
    \/ r.method \in {"GET", "POST"} /\ CollectionPath(r.path)
    \/ /\ r.method = "GET"
       /\ HasPrefix(r.path, Path(<<"/">>))
       /\ IsDecimal(TrimPrefix(r.path, Path(<<"/">>)))

\* Worker p is inside List; inside Create.
InList(p) == pc[p] \in {"List", "ListRLock", "ListRange", "ListWrite"}
InCreate(p) ==
    pc[p] \in {"Create", "CreateLock", "CreateWrite", "CreateUnlock",
               "CreateRespond"}

\* The error string documented for each error status.
DocumentedError(code) ==
    CASE code = 400 -> "bad request"
      [] code = 404 -> "not found"
      [] code = 500 -> "internal server error"

\* The body written is a JSON object with the single member "error".
IsErrorBody(b) == DOMAIN b = {"t", "error"}

\* The capture extraction of Get yields fewer than two groups for the
\* path of p's request.
CaptureFails(p) == Len(getUserReSubmatch(req[p].path)) < 2

\* Worker p is inside Get; past its capture check.
InGet(p) == pc[p] \in {"Get", "GetRLock", "GetLookup", "GetRUnlock", "GetWrite"}
PastCapture(p) == pc[p] \in {"GetRLock", "GetLookup", "GetRUnlock", "GetWrite"}

\* The records the store holds at the given keys, as a bag.
ValuesAt(store, keys) == BagOfAll(LAMBDA k : store[k], SetToBag(keys))

\* Worker p holds the lock, shared or exclusive.
HoldsLock(p) == p \in rlock \/ wlock = p

\* The statements that decode the request body, serialize a result or
\* write to the ResponseWriter: ServeHTTP's own (before dispatch), the
\* Decode of Create, the capture check of Get with its notFound, and the
\* json.Marshal and the writes that end each handler.
AtDecodeOrWrite(p) ==
    pc[p] \in {"idle", "done", "Create", "Get", "ListWrite", "GetWrite",
               "CreateRespond"}

C3_NoLostUpdate ==
    \A p \in Procs :
        ListComplete(p) =>
            \A k \in CreatedIds : \E u \in BagToSet(loc[p].users) : u.ID = k

C3_Witness ==
    \E p \in Procs :
        /\ ListComplete(p)
        /\ {<<"1">>, <<"7">>} \subseteq CreatedIds
        /\ \A q \in Procs \ {p} : pc[q] = "done" /\ req[q].method = "POST"

(***************************************************************************)
(* C4.  As stated: every access to the map is made holding the lock        *)
(* (shared for a read, exclusive for a write), and no handler reads the    *)
(* map, its size included, while another is inside its write section.      *)
(***************************************************************************)
C4_AccessUnderLock ==
    \A p \in Procs :
        /\ ReadsMap(p) => (p \in rlock \/ wlock = p)
        /\ WritesMap(p) => wlock = p
        /\ ReadsMap(p) => wlock \in {0, p}

C6_CardinalitySum ==
    \A p \in Procs :
        ListComplete(p) =>
            BagCardinality(loc[p].users)
                = Cardinality(DOMAIN SeedStore) + Cardinality(CreatedIds)

\* C6 amended: as many elements as there are distinct keys among the seed
\* keys and the ids created (an id equal to a seed key counts once).
C6_CardinalityKeys ==
    \A p \in Procs :
        ListComplete(p) =>
            BagCardinality(loc[p].users)
                = Cardinality(DOMAIN SeedStore \cup CreatedIds)

C6_Witness ==
    \E p \in Procs :
        /\ ListComplete(p)
        /\ <<"1">> \in CreatedIds
        /\ \E q \in Procs \ {p} : pc[q] = "GetLookup"

(***************************************************************************)
(* C7.  For a key K of one or more decimal digits, GET /users/K responds   *)
(* 200 with exactly the record stored at K (a seed record or the last      *)
(* Create with id K) and 404 with the not-found body when there is none.   *)
(***************************************************************************)
C7_GetByKey ==
    \A p \in Procs :
        (Done(p) /\ IsGetAt(p) /\ IsDecimal(KeyAt(p)))
            => IF KeyAt(p) \in DOMAIN settled
               THEN Responds(p, 200, RecordJSON(settled[KeyAt(p)].ID,
                                                settled[KeyAt(p)].Name))
               ELSE Responds(p, 404, ErrorBody("not found"))

C7_Witness ==
    \E p \in Procs :
        /\ Done(p) /\ IsGetAt(p) /\ KeyAt(p) = <<"9">>
        /\ Status(out[p]) = 404
        /\ <<"7">> \in CreatedIds

(***************************************************************************)
(* C8.  As stated: a request whose method and path match none of the three *)
(* routes (GET or POST on "/users" or "/users/", GET on "/users/<digits>") *)
(* gets the 404 not-found response and runs no handler.                    *)
(***************************************************************************)
C8_UnmatchedIsNotFound ==
    \A p \in Procs :
        (req[p] # NoRequest /\ ~MatchesRoute(req[p]))
            => /\ pc[p] = "done"
               /\ Responds(p, 404, ErrorBody("not found"))
               /\ ~wrote[p]

(***************************************************************************)
(* C9.  As stated: a GET reaches List, and a POST reaches Create, exactly  *)
(* when the path is "/users" or "/users/"; "/users//" reaches neither.     *)
(***************************************************************************)
C9_CollectionRoutes ==
    \A p \in Procs :
        /\ InList(p) => req[p].method = "GET" /\ CollectionPath(req[p].path)
        /\ InCreate(p) => req[p].method = "POST" /\ CollectionPath(req[p].path)
        /\ (req[p].method \in {"GET", "POST"} /\ CollectionPath(req[p].path)
              /\ pc[p] = "done")
               => Status(out[p]) # 404

C11_ResponseContract ==
    \A p \in Procs :
        req[p] # NoRequest =>
            /\ Len(out[p]) \in 1..3
            /\ out[p][1] = SetHeader
            /\ Len(out[p]) >= 2 => out[p][2].op = "WriteHeader"
            /\ Len(out[p]) = 3 => out[p][3].op = "Write" /\ pc[p] = "done"
            /\ pc[p] = "done" => Len(out[p]) = 3

C11_Witness ==
    \E p \in Procs :
        /\ Done(p) /\ IsGetAt(p) /\ KeyAt(p) = <<"7">>
        /\ out[p] = <<SetHeader, WriteHeader(404), Write(ErrorBody("not found"))>>
        /\ nreq = MaxSeqRequests

(***************************************************************************)
(* C12.  A handler that is at a decode, serialize or write step holds no   *)
(* lock, shared or exclusive.  What is serialized is local data: List's    *)
(* slice and Get's user are assigned from the map only while the worker    *)
(* holds the read lock, and each 200 body is the serialization of the      *)
(* worker's own locals (the slice, the user looked up, the user decoded).  *)
(***************************************************************************)
C12_NoLockDuringIO ==
    /\ [](\A p \in Procs : AtDecodeOrWrite(p) => ~HoldsLock(p))
    /\ [][\A p \in Procs :
            /\ (loc'[p].users # loc[p].users /\ loc'[p] # NoLocals)
                   => p \in rlock
            /\ (<<loc'[p].user, loc'[p].ok>> # <<loc[p].user, loc[p].ok>>
                  /\ loc'[p] # NoLocals)
                   => p \in rlock
            /\ (pc[p] = "ListWrite" /\ pc'[p] = "done")
                   => Body(out'[p]) = MarshalUsers(loc[p].users).json
            /\ (pc[p] = "GetWrite" /\ pc'[p] = "done" /\ loc[p].ok)
                   => Body(out'[p]) = MarshalUser(loc[p].user).json
            /\ (pc[p] = "CreateRespond" /\ pc'[p] = "done")
                   => Body(out'[p]) = MarshalUser(loc[p].u).json]_vars

C12_Witness ==
    \E p, q \in Procs :
        /\ pc[p] = "ListWrite" /\ loc[p].users # EmptyBag
        /\ pc[q] = "CreateUnlock" /\ wlock = q

(***************************************************************************)
(* C13.  As stated: the body written after a 400, 404 or 500 status is     *)
(* the object {error: S} with S "bad request", "not found" and "internal   *)
(* server error" respectively, and no other error string is written.       *)
(***************************************************************************)
C13_ErrorBodies ==
    \A p \in Procs : \A i \in 1..Len(out[p]) :
        /\ (out[p][i].op = "WriteHeader" /\ out[p][i].code \in {400, 404, 500})
               => /\ i < Len(out[p])
                  /\ out[p][i + 1]
                        = Write(ErrorBody(DocumentedError(out[p][i].code)))
        /\ (out[p][i].op = "Write" /\ IsErrorBody(out[p][i].body))
               => out[p][i].body.error
                     \in {"bad request", "not found", "internal server error"}

(***************************************************************************)
(* C14.  In every step, each key of the map before the step is a key       *)
(* after it, and the record at a key changes only in the write step of a   *)
(* POST request whose decoded record has that key as its id.               *)
(***************************************************************************)
C14_KeysNeverShrink ==
    [][/\ DOMAIN m \subseteq DOMAIN m'
       /\ \A k \in DOMAIN m :
              m'[k] # m[k] =>
                  \E p \in Procs :
                      /\ pc[p] = "CreateWrite" /\ pc'[p] = "CreateUnlock"
                      /\ req[p].method = "POST"
                      /\ Decode(req[p].body).u.ID = k]_vars

C14_Witness ==
    /\ DOMAIN SeedStore \subseteq DOMAIN m
    /\ m[<<"1">>] = user(<<"1">>, NameX)
    /\ <<"7">> \in DOMAIN m /\ m[<<"7">>].Name = NameY

(***************************************************************************)
(* C15.  Under fair scheduling every request ServeHTTP has taken is        *)
(* eventually answered: its handler returns, having written one status     *)
(* and one body and holding no lock (a worker holds a lock only while it   *)
(* serves a request, so every lock taken is released).  No handler step    *)
(* is taken twice for a request (the handlers have no loop but List's      *)
(* range and no retry), so the response is that of one attempt.            *)
(***************************************************************************)
C15_EveryRequestAnswered ==
    \A p \in Procs :
        (HoldsLock(p) \/ (req[p] # NoRequest /\ pc[p] # "done"))
            ~> (/\ pc[p] = "done"
                /\ ~HoldsLock(p)
                /\ Len(Statuses(out[p])) = 1
                /\ Len(Bodies(out[p])) = 1)

C15_Witness ==
    \E p, q \in Procs :
        /\ pc[p] = "CreateLock"
        /\ pc[q] = "ListRange" /\ q \in rlock

(***************************************************************************)
(* C16.  A Create that responds 200 responds with the record decoded from  *)
(* its own body, whatever the store holds at that id by then: of two       *)
(* interleaved Creates with the same id and different names each gets its  *)
(* own name back, the one whose write was overwritten too.                 *)
(***************************************************************************)
C16_CreateEchoesOwnRecord ==
    \A p \in Procs :
        (Done(p) /\ req[p].method = "POST" /\ Status(out[p]) = 200)
            => Responds(p, 200, MarshalUser(Decode(req[p].body).u).json)

C16_Witness ==
    \E p, q \in Procs :
        /\ Done(p) /\ Responds(p, 200, RecordJSON(<<"7">>, NameX))
        /\ Done(q) /\ Responds(q, 200, RecordJSON(<<"7">>, NameY))
        /\ m[<<"7">>] = user(<<"7">>, NameY)
        /\ nreq = NumProcs

(***************************************************************************)
(* C17.  Get run on a path whose capture extraction yields fewer than two  *)
(* groups writes the not-found response and does not return: it goes on    *)
(* to take the read lock and to the lookup, where the access to the        *)
(* capture list is out of range (a panic, the lock still held).  It never  *)
(* returns normally.                                                       *)
(***************************************************************************)
C17_GetGoesOnAfterNotFound ==
    \A p \in Procs :
        (req[p] # NoRequest /\ CaptureFails(p)) =>
            /\ pc[p] \in {"Get", "GetRLock", "GetLookup", "panic"}
            /\ pc[p] = "Get" => out[p] = <<>>
            /\ pc[p] # "Get" => out[p] = notFound(<<>>)
            /\ pc[p] \in {"GetLookup", "panic"} => p \in rlock

C17_Witness ==
    \E p \in Procs :
        /\ pc[p] = "panic"
        /\ req[p].path = Path(<<"/", "a">>)
        /\ out[p] = <<WriteHeader(404), Write(ErrorBody("not found"))>>
        /\ p \in rlock

(***************************************************************************)
(* C18.  A request ServeHTTP dispatches to Get has a path of which the     *)
(* capture extraction yields two groups, the whole path and its digits;    *)
(* past the capture check Get has these two groups and has written no      *)
(* not-found response, and the out-of-range access never happens.          *)
(***************************************************************************)
C18_DispatchedGetCaptures ==
    \A p \in Procs :
        /\ InGet(p) =>
               /\ getUserReSubmatch(req[p].path) = <<req[p].path, KeyAt(p)>>
               /\ IsDecimal(KeyAt(p))
        /\ PastCapture(p) =>
               /\ loc[p].matches = <<req[p].path, KeyAt(p)>>
               /\ out[p] = <<SetHeader>>
        /\ pc[p] # "panic"

C18_Witness ==
    \E p \in Procs :
        /\ pc[p] = "GetLookup"
        /\ loc[p].matches = <<Path(<<"/", "1", "1">>), <<"1", "1">>>>

(***************************************************************************)
(* C19.  The array of a List is the store at one instant.  While a worker  *)
(* holds the read lock no step changes the map; so what List's loop has    *)
(* collected so far is what the store holds now at the keys visited, and   *)
(* when the loop ends, the lock still held, the slice is the whole store   *)
(* as it is at that instant, before or after any concurrent Create and     *)
(* never part of each.                                                     *)
(***************************************************************************)
C19_ListSnapshot ==
    /\ [](\A p \in Procs :
             pc[p] = "ListRange" =>
                 /\ p \in rlock /\ wlock = 0
                 /\ loc[p].visited \subseteq DOMAIN m
                 /\ loc[p].users = ValuesAt(m, loc[p].visited))
    /\ [][\A p \in Procs :
            /\ p \in rlock => m' = m
            /\ (pc[p] = "ListRange" /\ pc'[p] = "ListWrite")
                   => loc'[p].users = ValuesAt(m, DOMAIN m)]_vars

C19_Witness ==
    \E p, q \in Procs :
        /\ ListComplete(p)
        /\ loc[p].users = ValuesAt(m, DOMAIN m)
        /\ <<"7">> \in DOMAIN m
        /\ pc[q] = "CreateLock"
        /\ req[q].body = JObject(JString(<<"1">>), JString(NameX))

(***************************************************************************)
(* C20.  A step changes the map only if it is the write step of a worker   *)
(* serving a POST whose body decoded without error, taken once for that    *)
(* request; the map after it differs from the map before it at most at     *)
(* the decoded record's id.  So no step of List, of Get or of the          *)
(* not-found path changes the map.                                         *)
(***************************************************************************)
C20_OnlyCreateWrites ==
    [][m' # m =>
          \E p \in Procs :
              /\ pc[p] = "CreateWrite" /\ pc'[p] = "CreateUnlock"
              /\ req[p].method = "POST"
              /\ ~Decode(req[p].body).err
              /\ ~wrote[p] /\ wrote'[p]
              /\ DOMAIN m' = DOMAIN m \cup {Decode(req[p].body).u.ID}
              /\ m'[Decode(req[p].body).u.ID] = Decode(req[p].body).u
              /\ \A k \in DOMAIN m \ {Decode(req[p].body).u.ID} :
                     m'[k] = m[k]]_vars

C20_Witness ==
    \E p, q \in Procs :
        /\ pc[p] = "CreateUnlock" /\ wrote[p]
        /\ m = (<<"7">> :> user(<<"7">>, NameX)) @@ SeedStore
        /\ pc[q] = "ListRLock"

====
